---- MODULE Spec2Model ----
(***************************************************************************)
(* A model of logread (src/log/logread.c): the frame decoder of the read   *)
(* callback, log_notify (parse, rotate, filter, format, write), the        *)
(* reconnect timer and the sink handle callback, and main's start-up.      *)
(*                                                                         *)
(* C strings are TLA+ strings without their terminating NUL.  A unit of    *)
(* the inbound stream is a record [name, type, val]: the header of a frame *)
(* is BlobHdrSize raw units holding the big-endian payload length, and the *)
(* payload is one unit per blobmsg attribute.                              *)
(***************************************************************************)
EXTENDS Integers, Sequences, FiniteSets, TLC

(* ------------------------------ bounds -------------------------------- *)

\* The number of frames the log service sends on the stream.
MaxFrames == 2

(* ------------------------- program constants -------------------------- *)

\* sizeof(struct blob_attr), the frame header (logread.c:348).
BlobHdrSize == 4
\* char buf[512] (logread.c:121).
BufSize == 512
\* uloop_timeout_set(&retry, 1000) (logread.c:100).
RetryMsecs == 1000
\* int tries = 5 (logread.c:378).
Tries == 5
\* log_size *= 1024 (logread.c:416).
KiB == 1024
\* STDOUT_FILENO (logread.c:484).
STDOUT_FILENO == 1

LOG_STDOUT == "LOG_STDOUT"
LOG_FILE == "LOG_FILE"
LOG_NET == "LOG_NET"

\* A NULL pointer and a set pointer: <<>> and <<x>>.
NULL == <<>>
Ptr(x) == <<x>>
Deref(p) == p[1]

Min(a, b) == IF a < b THEN a ELSE b

(* ------------------------------ C strings ----------------------------- *)

\* strstr(s + from - 1, kw): the first index i >= from at which kw occurs in
\* s, or 0 (NULL).
StrStr(s, from, kw) ==
  LET hits == {i \in from..(Len(s) - Len(kw) + 1) : SubSeq(s, i, i + Len(kw) - 1) = kw}
  IN IF hits = {} THEN 0 ELSE CHOOSE i \in hits : \A j \in hits : i <= j

\* strncat(dst, src, n) into a buffer that is large enough.
StrNCat(dst, src, n) == dst \o SubSeq(src, 1, Min(n, Len(src)))

\* snprintf(buf, size, "%s", s): at most size - 1 characters are kept.
SnPrintf(size, s) == SubSeq(s, 1, Min(size - 1, Len(s)))

\* n copies of the text s.
RECURSIVE Rep(_, _)
Rep(s, n) ==
  IF n = 0 THEN ""
  ELSE LET h == Rep(s, n \div 2) IN h \o h \o (IF n % 2 = 1 THEN s ELSE "")

\* "%03u"
Pad3(n) == (IF n < 10 THEN "00" ELSE IF n < 100 THEN "0" ELSE "") \o ToString(n)
\* "%02d"
Pad2(n) == (IF n < 10 THEN "0" ELSE "") \o ToString(n)

(* ------------------------- the inbound stream -------------------------- *)

\* enum SOURCE_* of syslog.h, as used at logread.c:206-212 and :302.
SOURCE_KLOG == 0
SOURCE_SYSLOG == 1
SOURCE_INTERNAL == 2

BLOBMSG_TYPE_UNSPEC == "unspec"
BLOBMSG_TYPE_STRING == "string"
BLOBMSG_TYPE_INT32 == "int32"
BLOBMSG_TYPE_INT64 == "int64"

\* The message texts the log service sends; a string attribute's val is an
\* index into this table.
Messages == <<"hello", "bye", "%priority%", "%prio">>

HdrUnit(v) == [name |-> "", type |-> "raw", val |-> v]
Attr(n, t, v) == [name |-> n, type |-> t, val |-> v]

\* The payloads the log service sends: two well-formed records, one without
\* "time", and one whose "priority" is a string.
Payloads ==
  << << Attr("msg", BLOBMSG_TYPE_STRING, 1), Attr("id", BLOBMSG_TYPE_INT32, 1),
        Attr("priority", BLOBMSG_TYPE_INT32, 14), Attr("source", BLOBMSG_TYPE_INT32, SOURCE_SYSLOG),
        Attr("time", BLOBMSG_TYPE_INT64, 5123) >>,
     << Attr("msg", BLOBMSG_TYPE_STRING, 2), Attr("id", BLOBMSG_TYPE_INT32, 2),
        Attr("priority", BLOBMSG_TYPE_INT32, 6), Attr("source", BLOBMSG_TYPE_INT32, SOURCE_KLOG),
        Attr("time", BLOBMSG_TYPE_INT64, 7045) >>,
     << Attr("msg", BLOBMSG_TYPE_STRING, 1), Attr("id", BLOBMSG_TYPE_INT32, 3),
        Attr("priority", BLOBMSG_TYPE_INT32, 14), Attr("source", BLOBMSG_TYPE_INT32, SOURCE_SYSLOG) >>,
     << Attr("msg", BLOBMSG_TYPE_STRING, 1), Attr("id", BLOBMSG_TYPE_INT32, 4),
        Attr("priority", BLOBMSG_TYPE_STRING, 1), Attr("source", BLOBMSG_TYPE_INT32, SOURCE_SYSLOG),
        Attr("time", BLOBMSG_TYPE_INT64, 5123) >> >>

\* A frame on the wire: the header (the big-endian length of header and
\* payload) and the payload.
Frame(payload) ==
  [i \in 1..BlobHdrSize |->
     HdrUnit(IF i = BlobHdrSize THEN BlobHdrSize + Len(payload) ELSE 0)] \o payload

RECURSIVE Flatten(_)
Flatten(ss) == IF ss = <<>> THEN <<>> ELSE Head(ss) \o Flatten(Tail(ss))

\* The streams the log service may send: up to MaxFrames frames.
Streams ==
  UNION {[1..n -> 1..Len(Payloads)] : n \in 0..MaxFrames}

WireOf(kinds) == Flatten([i \in 1..Len(kinds) |-> Frame(Payloads[kinds[i]])])

\* blob_len(a): the payload length the header declares (the low 24 bits of
\* the big-endian length word, less the header).
blob_len(a) == (65536 * a[2].val + 256 * a[3].val + a[4].val) - BlobHdrSize

\* Whether the read buffer starts with a complete frame: the two tests of
\* the read callback's loop.
HasFrame(rb) ==
  /\ ~(Len(rb) < BlobHdrSize)
  /\ ~(Len(rb) < blob_len(rb) + BlobHdrSize)

\* Mutant: the header is left out of the frame's length.
cur_len_payload_only(rb) == blob_len(rb)

\* cur_len = blob_len(a) + sizeof(*a)
cur_len(rb) == blob_len(rb) + BlobHdrSize

\* blob_data(msg), blob_len(msg): the payload of the frame at the head.
blob_data(rb) == SubSeq(rb, BlobHdrSize + 1, cur_len(rb))

(* --------------------------- the record parser ------------------------ *)

LogFields == {"msg", "id", "priority", "source", "time"}

\* Mutant: the policy accepts a "priority" of any type.
log_policy_any_priority ==
  [f \in LogFields |->
     CASE f = "msg" -> BLOBMSG_TYPE_STRING
       [] f = "time" -> BLOBMSG_TYPE_INT64
       [] f = "priority" -> BLOBMSG_TYPE_UNSPEC
       [] OTHER -> BLOBMSG_TYPE_INT32]

\* static const struct blobmsg_policy log_policy[]
log_policy ==
  [f \in LogFields |->
     CASE f = "msg" -> BLOBMSG_TYPE_STRING
       [] f = "time" -> BLOBMSG_TYPE_INT64
       [] OTHER -> BLOBMSG_TYPE_INT32]

\* blobmsg_parse: tb[f] is the first attribute named f of the policy's type
\* (of any type when the policy leaves it unspecified), or NULL.
blobmsg_parse(data) ==
  [f \in LogFields |->
     LET hits == {i \in 1..Len(data) :
                    /\ data[i].name = f
                    /\ log_policy[f] = BLOBMSG_TYPE_UNSPEC \/ data[i].type = log_policy[f]}
     IN IF hits = {} THEN NULL
        ELSE Ptr(data[CHOOSE i \in hits : \A j \in hits : i <= j])]

\* The negation of the test of logread.c:137.
HasAllFields(tb) ==
  ~(tb["id"] = NULL \/ tb["priority"] = NULL \/ tb["source"] = NULL
    \/ tb["time"] = NULL \/ tb["msg"] = NULL)

\* regexec(&regexp_preg, m, ...) == REG_NOMATCH, for a pattern without
\* metacharacters: the pattern does not occur in m.
RegexNoMatch(pat, m) == StrStr(m, 1, pat) = 0

(* ----------------------------- the formatter --------------------------- *)

\* facilitynames and prioritynames of <syslog.h>, by code; getcodetext
\* returns the first name of a code and "<unknown>" for a code without one.
facilitynames ==
  << "kern", "user", "mail", "daemon", "auth", "syslog", "lpr", "news", "uucp",
     "cron", "authpriv", "ftp", "<unknown>", "<unknown>", "<unknown>", "<unknown>",
     "local0", "local1", "local2", "local3", "local4", "local5", "local6", "local7",
     "mark" >>
prioritynames ==
  << "emerg", "alert", "crit", "err", "warn", "notice", "info", "debug" >>

\* getcodetext(LOG_FAC(p) << 3, facilitynames)
FacilityText(p) ==
  LET fac == (p \div 8) % 128
  IN IF fac + 1 <= Len(facilitynames) THEN facilitynames[fac + 1] ELSE "<unknown>"
\* getcodetext(LOG_PRI(p), prioritynames)
PriorityText(p) == prioritynames[(p % 8) + 1]

\* ctime(&t) for the first minute of the epoch (TZ=UTC), newline included.
ctime(t) == "Thu Jan  1 00:00:" \o Pad2(t) \o " 1970\n"

\* timestamp_format_precision(buf, size, &ts, 3), same range.
timestamp_format(sec, ms) == "1970-01-01T00:00:" \o Pad2(sec) \o "." \o Pad3(ms) \o "Z"

\* The local variables log_notify derives from a parsed record
\* (logread.c:156-170).
RecordOf(tb) ==
  LET time == Deref(tb["time"]).val
      t == time \div 1000
      t_ms == time % 1000
      p == Deref(tb["priority"]).val
      c0 == ctime(t)
  IN [ m |-> Messages[Deref(tb["msg"]).val],
       p |-> p,
       source |-> Deref(tb["source"]).val,
       buf_rfc3339 |-> timestamp_format(t, t_ms),
       buf_ts |-> SnPrintf(32, "[" \o ToString(t) \o "." \o Pad3(t_ms) \o "] "),
       c |-> SubSeq(c0, 1, Len(c0) - 1),
       buf_p |-> SnPrintf(11, ToString(p)) ]

TPL_FIELDS == << "%message%", "%priority%", "%source%", "%timestamp%", "%rfc3339%" >>

\* Mutant: every field is given the message.
FieldText_message(tpli, r) == r.m

\* The switch of logread.c:197-226.
FieldText(tpli, r) ==
  CASE tpli = 1 -> r.m
    [] tpli = 2 -> r.buf_p
    [] tpli = 3 -> (CASE r.source = SOURCE_KLOG -> "kernel"
                      [] r.source = SOURCE_SYSLOG -> "syslog"
                      [] r.source = SOURCE_INTERNAL -> "internal"
                      [] OTHER -> "-")
    [] tpli = 4 -> r.buf_ts
    [] tpli = 5 -> r.buf_rfc3339

\* The for loop of logread.c:185-191 from field i on: <<substrnext, tpli>>,
\* substrnext = 0 for NULL.
RECURSIVE ScanFields(_, _, _, _, _)
ScanFields(buf, substr, i, substrnext, tpli) ==
  IF i > Len(TPL_FIELDS) THEN <<substrnext, tpli>>
  ELSE LET substrbuf == StrStr(buf, substr, TPL_FIELDS[i])
       IN IF substrbuf = 0 \/ (substrnext # 0 /\ substrbuf > substrnext)
          THEN ScanFields(buf, substr, i + 1, substrnext, tpli)
          ELSE ScanFields(buf, substr, i + 1, substrbuf, i)

\* A value stored into a short.
ToShort(x) == ((x + 32768) % 65536) - 32768

\* Mutant: the search goes on at the start of the text just substituted.
RECURSIVE ExpandLoop_rescan(_, _, _, _)
ExpandLoop_rescan(buf, substr, tpli0, r) ==
  LET sc == ScanFields(buf, substr, 1, 0, tpli0)
      pos == sc[1]
      tpli == sc[2]
  IN IF pos = 0 THEN [res |-> "ok", buf |-> buf]
     ELSE
       LET field == FieldText(tpli, r)
           off == pos - 1
           fieldlen == Len(field)
           availen1 == ToShort(ToShort((BufSize - 1) - off) - fieldlen)
           fieldkwlen == Len(TPL_FIELDS[tpli])
           len == (Len(buf) - off) - fieldkwlen
           availen2 == ToShort(availen1 - len)
           buf2 == SubSeq(buf, 1, off) \o field \o SubSeq(buf, pos + fieldkwlen, Len(buf))
       IN IF availen1 < 0 THEN [res |-> "overflow", buf |-> ""]
          ELSE IF off + fieldlen > BufSize - 1 THEN [res |-> "smash", buf |-> ""]
          ELSE IF availen2 < 0 THEN [res |-> "overflow", buf |-> ""]
          ELSE IF Len(buf2) > BufSize - 1 THEN [res |-> "smash", buf |-> ""]
          ELSE ExpandLoop_rescan(buf2, pos, tpli, r)

\* The substitution loop of logread.c:183-255: buf is the buffer's text,
\* substr the index in it the search starts at.  The result is
\* [res |-> "ok", buf |-> text], [res |-> "overflow"] for the two returns, or
\* [res |-> "smash"] when a copy runs past buf2.
RECURSIVE ExpandLoop(_, _, _, _)
ExpandLoop(buf, substr, tpli0, r) ==
  LET sc == ScanFields(buf, substr, 1, 0, tpli0)
      pos == sc[1]
      tpli == sc[2]
  IN IF pos = 0 THEN [res |-> "ok", buf |-> buf]
     ELSE
       LET field == FieldText(tpli, r)
           off == pos - 1
           fieldlen == Len(field)
           availen1 == ToShort(ToShort((BufSize - 1) - off) - fieldlen)
           fieldkwlen == Len(TPL_FIELDS[tpli])
           len == (Len(buf) - off) - fieldkwlen
           availen2 == ToShort(availen1 - len)
           buf2 == SubSeq(buf, 1, off) \o field \o SubSeq(buf, pos + fieldkwlen, Len(buf))
       IN IF availen1 < 0 THEN [res |-> "overflow", buf |-> ""]
          ELSE IF off + fieldlen > BufSize - 1 THEN [res |-> "smash", buf |-> ""]
          ELSE IF availen2 < 0 THEN [res |-> "overflow", buf |-> ""]
          ELSE IF Len(buf2) > BufSize - 1 THEN [res |-> "smash", buf |-> ""]
          ELSE ExpandLoop(buf2, pos + fieldlen, tpli, r)

\* Mutant: the template's length is not checked.
ExpandTemplate_unchecked(tpl, r) == ExpandLoop(tpl, 1, 0, r)

\* Template mode, logread.c:172-256.
ExpandTemplate(tpl, r) ==
  IF Len(tpl) + 1 > BufSize THEN [res |-> "overflow", buf |-> ""]
  ELSE ExpandLoop(tpl, 1, 0, r)

\* The fixed network text, logread.c:262-277.
NetText(o, r) ==
  LET b0 == SnPrintf(BufSize, "<" \o ToString(r.p) \o ">")
      b1 == StrNCat(b0, SubSeq(r.c, 5, Len(r.c)), 11)
      b2 == IF o.log_timestamp THEN StrNCat(b1, r.buf_ts, BufSize - Len(b1) - 1) ELSE b1
      b3 == IF o.hostname # NULL
            THEN LET h == StrNCat(b2, Deref(o.hostname), BufSize - Len(b2) - 1)
                 IN StrNCat(h, " ", BufSize - Len(h) - 1)
            ELSE b2
      b4 == IF o.log_prefix # NULL
            THEN LET h == StrNCat(b3, Deref(o.log_prefix), BufSize - Len(b3) - 1)
                 IN StrNCat(h, ": ", BufSize - Len(h) - 1)
            ELSE b3
      b5 == IF r.source = SOURCE_KLOG
            THEN StrNCat(b4, "kernel: ", BufSize - Len(b4) - 1) ELSE b4
  IN StrNCat(b5, r.m, BufSize - Len(b5) - 1)

\* The fixed line of a stdout or file sink, logread.c:298-302.
LineText(o, r) ==
  SnPrintf(BufSize,
    r.c \o " " \o (IF o.log_timestamp THEN r.buf_ts ELSE "")
        \o FacilityText(r.p) \o "." \o PriorityText(r.p)
        \o (IF r.source # 0 THEN "" ELSE " kernel:") \o " " \o r.m \o "\n")

\* The newline a template line gets, logread.c:304-307.
TemplateLine(buf) ==
  LET buflen == IF Len(buf) < BufSize - 1 THEN Len(buf) ELSE BufSize - 2
  IN SubSeq(buf, 1, buflen) \o "\n"

\* Mutant: a TCP sink sends the text alone.
TcpData_no_trailer(o, buf) == [data |-> buf, len |-> Len(buf)]

\* What a TCP sink sends, logread.c:282-285: the text and one more byte, a
\* newline or the terminating NUL (which data does not hold).
TcpData(o, buf) ==
  [data |-> IF ~o.log_trailer_null THEN buf \o "\n" ELSE buf, len |-> Len(buf) + 1]
\* What a UDP sink writes, logread.c:280.
UdpData(buf) == [data |-> buf, len |-> Len(buf)]
\* What a stdout or file sink writes, logread.c:309.
LineData(buf) == [data |-> buf, len |-> Len(buf)]

(* ------------------------------ the state ----------------------------- *)

VARIABLES
  opt,             \* the options main parsed (the statics of logread.c:79-83)
  lookup_fails,    \* environment: how many more ubus_lookup_id calls fail
  log_type,        \* LOG_STDOUT, LOG_FILE or LOG_NET
  sender,          \* the uloop_fd: fd, and whether uloop holds it
  retry,           \* the uloop_timeout: pending, and the delay it was set to
  fdtab,           \* the process's descriptors: "free", "std", "file", "sock"
  fs,              \* the files at log_file and log_file.old
  stream,          \* the units the log service sends
  rpos,            \* how many of them the ustream has read
  rbuf,            \* the ustream's read buffer
  eos,             \* the log service closed the stream and the ustream saw it
  pc,              \* "connect", "lookup", "run", "cb", "done", "exit"
  uloop_cancelled, \* uloop_end() was called
  tries,           \* main's tries
  ret,             \* main's ret
  status,          \* the exit status, once pc is "done" or "exit"
  notified,        \* history: [off, len] of every frame given to log_notify
  fileops,         \* history: every open() and rename() of the log file
  writes,          \* history: every write() and send() log_notify made
  last             \* history: the last step and its outcome

vars == << opt, lookup_fails, log_type, sender, retry, fdtab, fs, stream, rpos, rbuf, eos, pc,
           uloop_cancelled, tries, ret, status, notified, fileops, writes, last >>

FdNums == 0..3
NoFile == [exists |-> FALSE, pre |-> 0, lines |-> <<>>]
\* A file that held pre bytes when the process started.
OldFile(pre) == [exists |-> TRUE, pre |-> pre, lines |-> <<>>]

RECURSIVE SumLen(_)
SumLen(lines) == IF lines = <<>> THEN 0 ELSE Len(Head(lines).text) + SumLen(Tail(lines))
\* st_size
FileSize(f) == f.pre + SumLen(f.lines)

\* The lowest free descriptor, which open() and socket() return.
LowestFree(tab) == CHOOSE fd \in FdNums : tab[fd] = "free" /\ \A g \in FdNums : tab[g] = "free" => fd <= g
\* close(fd)
CloseFd(tab, fd) == IF fd \in FdNums THEN [tab EXCEPT ![fd] = "free"] ELSE tab

\* The formats and filters of the runs checked.
FormatOpts ==
  { [log_timestamp |-> TRUE, hostname |-> Ptr("host"), log_prefix |-> NULL,
     log_template |-> NULL, regexp_pattern |-> NULL],
    [log_timestamp |-> FALSE, hostname |-> NULL, log_prefix |-> Ptr("pfx"),
     log_template |-> NULL, regexp_pattern |-> Ptr("ell")],
    [log_timestamp |-> FALSE, hostname |-> NULL, log_prefix |-> NULL,
     log_template |-> Ptr("%priority% %message%"), regexp_pattern |-> Ptr("ell")] }

\* The sinks of the runs checked: UDP, TCP with a null trailer, TCP with a
\* newline (and -F given too), a file with and without a threshold, stdout.
SinkOpts ==
  { [log_ip |-> TRUE, log_file |-> FALSE, log_udp |-> ~z, log_trailer_null |-> z, log_size |-> 0]
      : z \in BOOLEAN }
  \cup { [log_ip |-> TRUE, log_file |-> TRUE, log_udp |-> FALSE, log_trailer_null |-> FALSE, log_size |-> 0] }
  \cup { [log_ip |-> FALSE, log_file |-> TRUE, log_udp |-> FALSE, log_trailer_null |-> FALSE, log_size |-> sz]
      : sz \in {0, KiB} }
  \cup { [log_ip |-> FALSE, log_file |-> FALSE, log_udp |-> FALSE, log_trailer_null |-> FALSE, log_size |-> 0] }

Options ==
  { [log_ip |-> s.log_ip, log_file |-> s.log_file, log_udp |-> s.log_udp,
     log_trailer_null |-> s.log_trailer_null, log_size |-> s.log_size,
     log_follow |-> fl, regexp_pattern |-> f.regexp_pattern,
     log_timestamp |-> f.log_timestamp, hostname |-> f.hostname,
     log_prefix |-> f.log_prefix, log_template |-> f.log_template]
    : s \in SinkOpts, f \in FormatOpts, fl \in BOOLEAN }

\* The log file before the process starts: absent, or left by an earlier run
\* below or above the threshold.
InitialLogs == {NoFile, OldFile(KiB - 30), OldFile(KiB + 1)}

\* The history of a step no property is about.
NoStep == [op |-> "", res |-> "", idx |-> 0, fd |-> 0]

\* The environments of the runs checked: the log object is found at once and
\* any stream follows, or it is found late (or never) and the stream is one
\* well-formed record.
Environments ==
  { [fails |-> 0, kinds |-> k] : k \in Streams }
  \cup { [fails |-> n, kinds |-> << 1 >>] : n \in 1..(Tries + 1) }

Init ==
  /\ opt \in Options
  /\ log_type = LOG_STDOUT
  /\ sender = [fd |-> 0, registered |-> FALSE]
  /\ retry = [pending |-> FALSE, msecs |-> 0]
  /\ fdtab = [fd \in FdNums |-> IF fd <= 2 THEN "std" ELSE "free"]
  /\ fs \in {[log |-> l, old |-> NoFile] :
               l \in IF opt.log_file /\ ~opt.log_ip /\ opt.log_size # 0 THEN InitialLogs ELSE {NoFile}}
  /\ \E e \in Environments : lookup_fails = e.fails /\ stream = WireOf(e.kinds)
  /\ rpos = 0
  /\ rbuf = <<>>
  /\ eos = FALSE
  /\ pc = "connect"
  /\ uloop_cancelled = FALSE
  /\ tries = Tries
  /\ ret = 0
  /\ status = 0
  /\ notified = <<>>
  /\ fileops = <<>>
  /\ writes = <<>>
  /\ last = NoStep

\* The records of the runs that check the templates: every message, the
\* second from the kernel.
TplPayloads ==
  [i \in 1..Len(Messages) |->
     << Attr("msg", BLOBMSG_TYPE_STRING, i), Attr("id", BLOBMSG_TYPE_INT32, i),
        Attr("priority", BLOBMSG_TYPE_INT32, IF i = 2 THEN 6 ELSE 14),
        Attr("source", BLOBMSG_TYPE_INT32, IF i = 2 THEN SOURCE_KLOG ELSE SOURCE_SYSLOG),
        Attr("time", BLOBMSG_TYPE_INT64, 5123) >>]

TplStreams ==
  UNION {[1..n -> 1..Len(TplPayloads)] : n \in 0..MaxFrames}

TplWireOf(kinds) == Flatten([i \in 1..Len(kinds) |-> Frame(TplPayloads[kinds[i]])])

\* The templates (-T) of those runs: the spec's example, text without a
\* field, every field, a field followed by the tail of a field's name, three
\* of 510 bytes whose expansion fills the buffer or passes its end at the
\* first or the second test, a template longer than the buffer, the empty
\* template and one that fills the buffer.
TplTemplates ==
  { "%priority% %message%",
    "100% %msg% text",
    "%source%|%timestamp%|%rfc3339%|%message%|%priority%|%message%",
    "%message%rity% %priority%",
    Rep("x", BufSize - 11) \o "%message%",
    Rep("x", BufSize - 20) \o "%message%%message%",
    "%message%%message%" \o Rep("y", BufSize - 20),
    Rep("x", BufSize),
    "",
    Rep("z", BufSize - 1) }

\* Their sinks: stdout (without -f), UDP, TCP with either trailer (with -f).
TplOptions ==
  { [log_ip |-> ip, log_file |-> FALSE, log_udp |-> ip /\ udp,
     log_trailer_null |-> ip /\ ~udp /\ z, log_size |-> 0,
     log_follow |-> ip, regexp_pattern |-> NULL,
     log_timestamp |-> FALSE, hostname |-> NULL, log_prefix |-> NULL,
     log_template |-> Ptr(t)]
    : ip \in BOOLEAN, udp \in BOOLEAN, z \in BOOLEAN, t \in TplTemplates }

TplInit ==
  /\ opt \in TplOptions
  /\ log_type = LOG_STDOUT
  /\ sender = [fd |-> 0, registered |-> FALSE]
  /\ retry = [pending |-> FALSE, msecs |-> 0]
  /\ fdtab = [fd \in FdNums |-> IF fd <= 2 THEN "std" ELSE "free"]
  /\ fs = [log |-> NoFile, old |-> NoFile]
  /\ \/ lookup_fails = 0 /\ \E k \in TplStreams : stream = TplWireOf(k)
     \/ lookup_fails \in 1..(Tries + 1) /\ stream = TplWireOf(<< 1 >>)
  /\ rpos = 0
  /\ rbuf = <<>>
  /\ eos = FALSE
  /\ pc = "connect"
  /\ uloop_cancelled = FALSE
  /\ tries = Tries
  /\ ret = 0
  /\ status = 0
  /\ notified = <<>>
  /\ fileops = <<>>
  /\ writes = <<>>
  /\ last = NoStep

(* ----------------------------- log_notify ------------------------------ *)

\* uloop_timeout_set(&retry, 1000)
RetrySet == [pending |-> TRUE, msecs |-> RetryMsecs]

\* Mutant: the file is rotated only once it is a whole buffer over the
\* threshold.
NeedRotate_late(o, ltype, fsv) ==
  /\ ltype = LOG_FILE
  /\ o.log_size # 0
  /\ fsv.log.exists
  /\ FileSize(fsv.log) > o.log_size + BufSize

\* The rotation test of logread.c:140; stat() succeeds when the file exists.
NeedRotate(o, ltype, fsv) ==
  /\ ltype = LOG_FILE
  /\ o.log_size # 0
  /\ fsv.log.exists
  /\ FileSize(fsv.log) > o.log_size

\* rename(log_file, old), its result ignored (logread.c:146): the file moves
\* to log_file.old, replacing what was there, or nothing happens.
Rename(fsv, ok) == IF ok THEN [log |-> NoFile, old |-> fsv.log] ELSE fsv

\* open(log_file, O_CREAT | O_WRONLY | O_APPEND, 0600), when it succeeds.
OpenLog(fsv) == IF fsv.log.exists THEN fsv ELSE [fsv EXCEPT !.log = OldFile(0)]

\* One open() or rename(), for the history; idx is the frame log_notify
\* handles, 0 in main.
FileOp(op, idx, ok) == [op |-> op, idx |-> idx, ok |-> ok]

\* The rotation of logread.c:141-153: close, rename, reopen; exited when the
\* reopen fails.  (A failed malloc leaves the rename out, like a failed
\* rename.)
Rotate(st, idx, rn_ok, op_ok) ==
  LET tab1 == CloseFd(st.fdtab, st.sender.fd)
      fs1 == Rename(st.fs, rn_ok)
      fd2 == IF op_ok THEN LowestFree(tab1) ELSE -1
  IN [ sender |-> [st.sender EXCEPT !.fd = fd2],
       retry |-> st.retry,
       fdtab |-> IF op_ok THEN [tab1 EXCEPT ![fd2] = "file"] ELSE tab1,
       fs |-> IF op_ok THEN OpenLog(fs1) ELSE fs1,
       exited |-> ~op_ok,
       ops |-> st.ops \o << FileOp("rename", idx, rn_ok), FileOp("open", idx, op_ok) >> ]

\* Mutant: the filter's test is inverted.
Filtered_inverted(o, m) == o.regexp_pattern # NULL /\ ~RegexNoMatch(Deref(o.regexp_pattern), m)

\* The filter of logread.c:157-159.
Filtered(o, m) == o.regexp_pattern # NULL /\ RegexNoMatch(Deref(o.regexp_pattern), m)

\* Mutant: the error branch closes the handle and forgets the timer.
SendError_no_timer(st) ==
  [ sender |-> [fd |-> -1, registered |-> FALSE],
    retry |-> st.retry,
    fdtab |-> CloseFd(st.fdtab, st.sender.fd),
    fs |-> st.fs,
    exited |-> FALSE,
    ops |-> st.ops ]

\* The error branch of logread.c:288-295.
SendError(st) ==
  [ sender |-> [fd |-> -1, registered |-> FALSE],
    retry |-> RetrySet,
    fdtab |-> CloseFd(st.fdtab, st.sender.fd),
    fs |-> st.fs,
    exited |-> FALSE,
    ops |-> st.ops ]

\* write() on a stdout or file sink that succeeds: a file grows by the line.
AppendLine(st, idx, text) ==
  IF st.fdtab[st.sender.fd] = "file"
  THEN [st EXCEPT !.fs.log.lines = Append(@, [idx |-> idx, text |-> text])]
  ELSE st

\* One write attempt, for the history.
WriteRec(st, idx, d, ok) ==
  [idx |-> idx, fd |-> st.sender.fd, kind |-> st.fdtab[st.sender.fd],
   data |-> d.data, len |-> d.len, ok |-> ok]

\* The output half of log_notify, logread.c:258-316, for the text buf.
Output(o, ltype, st, idx, r, buf, wr_ok) ==
  IF ltype = LOG_NET
  THEN LET text == IF o.log_template = NULL THEN NetText(o, r) ELSE buf
           d == IF o.log_udp THEN UdpData(text) ELSE TcpData(o, text)
           err == ~wr_ok
       IN [ res |-> IF err THEN "failed" ELSE "written",
            st |-> IF err THEN SendError(st) ELSE st,
            wr |-> << WriteRec(st, idx, d, wr_ok) >> ]
  ELSE LET text == IF o.log_template = NULL THEN LineText(o, r) ELSE TemplateLine(buf)
           d == LineData(text)
       IN [ res |-> IF wr_ok THEN "written" ELSE "failed",
            st |-> IF wr_ok THEN AppendLine(st, idx, text) ELSE st,
            wr |-> << WriteRec(st, idx, d, wr_ok) >> ]

\* log_notify(msg) in state st = [sender, retry, fdtab, fs, exited, ops] for the
\* frame at the head of rb, the idx-th of the stream; wr_ok, rn_ok and op_ok
\* are the results of write()/send(), rename() and open().
log_notify(o, ltype, st, rb, idx, wr_ok, rn_ok, op_ok) ==
  IF st.sender.fd < 0 THEN [res |-> "nofd", st |-> st, wr |-> <<>>]
  ELSE
    LET tb == blobmsg_parse(blob_data(rb))
    IN IF ~HasAllFields(tb) THEN [res |-> "skip", st |-> st, wr |-> <<>>]
       ELSE
         LET rot == NeedRotate(o, ltype, st.fs)
             st1 == IF rot THEN Rotate(st, idx, rn_ok, op_ok) ELSE st
             r == RecordOf(tb)
             x == IF o.log_template # NULL THEN ExpandTemplate(Deref(o.log_template), r)
                  ELSE [res |-> "ok", buf |-> ""]
         IN IF st1.exited THEN [res |-> "exit", st |-> st1, wr |-> <<>>]
            ELSE IF Filtered(o, r.m) THEN [res |-> "filtered", st |-> st1, wr |-> <<>>]
            ELSE IF x.res # "ok" THEN [res |-> x.res, st |-> st1, wr |-> <<>>]
            ELSE Output(o, ltype, st1, idx, r, x.buf, wr_ok)

(* ------------------------------ the steps ----------------------------- *)

State ==
  [sender |-> sender, retry |-> retry, fdtab |-> fdtab, fs |-> fs, exited |-> FALSE,
   ops |-> fileops]

\* The history of a step: what ran, how it ended, the frame it handled and
\* the sink's descriptor before it.
Step(op, res, idx) == [op |-> op, res |-> res, idx |-> idx, fd |-> sender.fd]

\* ubus_connect, logread.c:438-442.
UbusConnect(ok) ==
  /\ pc = "connect"
  /\ pc' = IF ok THEN "lookup" ELSE "done"
  /\ status' = IF ok THEN status ELSE 255
  /\ last' = NoStep
  /\ UNCHANGED << opt, lookup_fails, log_type, sender, retry, fdtab, fs, stream, rpos, rbuf, eos,
                  uloop_cancelled, tries, ret, notified, fileops, writes >>

\* Mutant: the loop's test decrements tries before it reads it.
LookupFail_pre_decrement ==
  /\ pc = "lookup"
  /\ lookup_fails > 0
  /\ lookup_fails' = lookup_fails - 1
  /\ ret' = 4
  /\ tries' = tries - 1
  /\ pc' = IF tries - 1 # 0 THEN "lookup" ELSE "done"
  /\ status' = IF tries - 1 # 0 THEN status ELSE 4
  /\ last' = NoStep
  /\ UNCHANGED << opt, log_type, sender, retry, fdtab, fs, stream, rpos, rbuf, eos,
                  uloop_cancelled, notified, fileops, writes >>

\* A failed ubus_lookup_id: sleep, continue, and the test of the do-while
\* (logread.c:447-452, :495-497).
LookupFail ==
  /\ pc = "lookup"
  /\ lookup_fails > 0
  /\ lookup_fails' = lookup_fails - 1
  /\ ret' = 4
  /\ tries' = tries - 1
  /\ pc' = IF tries # 0 THEN "lookup" ELSE "done"
  /\ status' = IF tries # 0 THEN status ELSE 4
  /\ last' = NoStep
  /\ UNCHANGED << opt, log_type, sender, retry, fdtab, fs, stream, rpos, rbuf, eos,
                  uloop_cancelled, notified, fileops, writes >>

\* The sink main sets up once the lookup succeeded (logread.c:470-485);
\* op_ok is the result of open().
SetupSink(o, st, op_ok) ==
  IF o.log_ip
  THEN [ltype |-> LOG_NET, st |-> [st EXCEPT !.retry = RetrySet]]
  ELSE IF o.log_file
  THEN LET fd == IF op_ok THEN LowestFree(st.fdtab) ELSE -1
       IN [ltype |-> LOG_FILE,
           st |-> [ sender |-> [st.sender EXCEPT !.fd = fd],
                    retry |-> st.retry,
                    fdtab |-> IF op_ok THEN [st.fdtab EXCEPT ![fd] = "file"] ELSE st.fdtab,
                    fs |-> IF op_ok THEN OpenLog(st.fs) ELSE st.fs,
                    exited |-> ~op_ok,
                    ops |-> Append(st.ops, FileOp("open", 0, op_ok)) ]]
  ELSE [ltype |-> LOG_STDOUT, st |-> [st EXCEPT !.sender.fd = STDOUT_FILENO]]

\* A successful ubus_lookup_id, the sink's set-up, and uloop_run entered
\* (logread.c:447, :454-491).
LookupOk(op_ok) ==
  /\ pc = "lookup"
  /\ lookup_fails = 0
  /\ opt.log_ip \/ ~opt.log_file => op_ok
  /\ \E s \in {SetupSink(opt, State, op_ok)} :
        /\ log_type' = s.ltype
        /\ sender' = s.st.sender
        /\ retry' = s.st.retry
        /\ fdtab' = s.st.fdtab
        /\ fs' = s.st.fs
        /\ fileops' = s.st.ops
        /\ pc' = IF s.st.exited THEN "exit" ELSE "run"
        /\ status' = IF s.st.exited THEN 255 ELSE status
        /\ last' = NoStep
  /\ ret' = 0
  /\ UNCHANGED << opt, lookup_fails, stream, rpos, rbuf, eos, uloop_cancelled, tries,
                  notified, writes >>

\* uloop_run returns once uloop_end was called; main returns ret
\* (logread.c:491-497).
UloopRunReturn ==
  /\ pc = "run"
  /\ uloop_cancelled
  /\ pc' = "done"
  /\ status' = ret
  /\ last' = NoStep
  /\ UNCHANGED << opt, lookup_fails, log_type, sender, retry, fdtab, fs, stream, rpos, rbuf, eos,
                  uloop_cancelled, tries, ret, notified, fileops, writes >>

\* Where the ustream's reads end in the runs checked: inside a frame's
\* header, at the header's end (the payload missing), and at the frame's end.
RECURSIVE ReadEnds(_, _)
ReadEnds(wire, off) ==
  IF off >= Len(wire) THEN {}
  ELSE LET l == BlobHdrSize + blob_len(SubSeq(wire, off + 1, off + BlobHdrSize))
       IN {off + 1, off + BlobHdrSize, off + l}
          \cup ReadEnds(wire, off + l)

\* The ustream reads the units up to e and calls notify_read.
ReadEvent(e) ==
  /\ pc = "run"
  /\ ~uloop_cancelled
  /\ e > rpos
  /\ rbuf' = rbuf \o SubSeq(stream, rpos + 1, e)
  /\ rpos' = e
  /\ pc' = "cb"
  /\ last' = NoStep
  /\ UNCHANGED << opt, lookup_fails, log_type, sender, retry, fdtab, fs, stream, eos,
                  uloop_cancelled, tries, ret, status, notified, fileops, writes >>

\* ustream_consume(s, n)
Consume(rb, n) == SubSeq(rb, n + 1, Len(rb))

\* One turn of the loop of logread_fd_data_cb (logread.c:343-357) that finds
\* a complete frame: log_notify, then ustream_consume.
DataCbFrame(wr_ok, rn_ok, op_ok) ==
  /\ pc = "cb"
  /\ HasFrame(rbuf)
  /\ ~NeedRotate(opt, log_type, fs) => rn_ok /\ op_ok
  /\ \E n \in {log_notify(opt, log_type, State, rbuf, Len(notified) + 1, wr_ok, rn_ok, op_ok)} :
        /\ sender' = n.st.sender
        /\ retry' = n.st.retry
        /\ fdtab' = n.st.fdtab
        /\ fs' = n.st.fs
        /\ fileops' = n.st.ops
        /\ writes' = writes \o n.wr
        /\ notified' = Append(notified, [off |-> rpos - Len(rbuf), len |-> cur_len(rbuf)])
        /\ last' = Step("notify", n.res, Len(notified) + 1)
        /\ pc' = IF n.st.exited THEN "exit" ELSE "cb"
        /\ status' = IF n.st.exited THEN 255 ELSE status
        /\ rbuf' = IF n.st.exited THEN rbuf ELSE Consume(rbuf, cur_len(rbuf))
  /\ UNCHANGED << opt, lookup_fails, log_type, stream, rpos, eos, uloop_cancelled, tries, ret >>

\* The loop of logread_fd_data_cb breaks, and the callback's end
\* (logread.c:348-349, :352-353, :358-360).
DataCbReturn ==
  /\ pc = "cb"
  /\ ~HasFrame(rbuf)
  /\ uloop_cancelled' = IF ~opt.log_follow THEN TRUE ELSE uloop_cancelled
  /\ pc' = "run"
  /\ last' = NoStep
  /\ UNCHANGED << opt, lookup_fails, log_type, sender, retry, fdtab, fs, stream, rpos, rbuf, eos,
                  tries, ret, status, notified, fileops, writes >>

\* The log service closes the stream and the ustream reads its end: no
\* notify_state callback is set (logread.c:366), so nothing else happens.
StreamEof ==
  /\ pc = "run"
  /\ ~uloop_cancelled
  /\ rpos = Len(stream)
  /\ ~eos
  /\ eos' = TRUE
  /\ last' = NoStep
  /\ UNCHANGED << opt, lookup_fails, log_type, sender, retry, fdtab, fs, stream, rpos, rbuf,
                  pc, uloop_cancelled, tries, ret, status, notified, fileops, writes >>

\* Mutant: a failed attempt does not set the timer again.
HandleReconnect_once(st, ok) ==
  LET fd == IF ok THEN LowestFree(st.fdtab) ELSE -1
  IN IF fd < 0
     THEN [st EXCEPT !.sender.fd = fd]
     ELSE [st EXCEPT !.sender = [fd |-> fd, registered |-> TRUE],
                     !.fdtab[fd] = "sock"]

\* log_handle_reconnect (logread.c:95-105); ok is whether usock() connects.
HandleReconnect(st, ok) ==
  LET fd == IF ok THEN LowestFree(st.fdtab) ELSE -1
  IN IF fd < 0
     THEN [st EXCEPT !.sender.fd = fd, !.retry = RetrySet]
     ELSE [st EXCEPT !.sender = [fd |-> fd, registered |-> TRUE],
                     !.fdtab[fd] = "sock"]

\* The retry timer expires: uloop takes it off its list and calls the
\* callback.
TimerExpire(ok) ==
  /\ pc = "run"
  /\ ~uloop_cancelled
  /\ retry.pending
  /\ \E st \in {HandleReconnect([State EXCEPT !.retry.pending = FALSE], ok)} :
        /\ sender' = st.sender
        /\ retry' = st.retry
        /\ fdtab' = st.fdtab
  /\ last' = NoStep
  /\ UNCHANGED << opt, lookup_fails, log_type, fs, stream, rpos, rbuf, eos, pc, uloop_cancelled,
                  tries, ret, status, notified, fileops, writes >>

\* Mutant: a closed peer's handle is closed and no reconnect is scheduled.
HandleFd_no_timer(st, eof) ==
  IF eof
  THEN [st EXCEPT !.sender = [fd |-> -1, registered |-> FALSE],
                  !.fdtab = CloseFd(st.fdtab, st.sender.fd)]
  ELSE st

\* Mutant: a closed peer's handle is forgotten, neither removed from the
\* loop nor closed.
HandleFd_no_close(st, eof) ==
  IF eof
  THEN [st EXCEPT !.sender.fd = -1, !.retry = RetrySet]
  ELSE st

\* log_handle_fd (logread.c:107-115); eof is u->eof.
HandleFd(st, eof) ==
  IF eof
  THEN [st EXCEPT !.sender = [fd |-> -1, registered |-> FALSE],
                  !.fdtab = CloseFd(st.fdtab, st.sender.fd),
                  !.retry = RetrySet]
  ELSE st

\* uloop reports an event on the sink's descriptor.
SenderEvent(eof) ==
  /\ pc = "run"
  /\ ~uloop_cancelled
  /\ sender.registered
  /\ \E st \in {HandleFd(State, eof)} :
        /\ sender' = st.sender
        /\ retry' = st.retry
        /\ fdtab' = st.fdtab
  /\ last' = NoStep
  /\ UNCHANGED << opt, lookup_fails, log_type, fs, stream, rpos, rbuf, eos, pc, uloop_cancelled,
                  tries, ret, status, notified, fileops, writes >>

Next ==
  \/ \E ok \in BOOLEAN : UbusConnect(ok)
  \/ LookupFail
  \/ \E op_ok \in BOOLEAN : LookupOk(op_ok)
  \/ UloopRunReturn
  \/ \E e \in ReadEnds(stream, 0) : ReadEvent(e)
  \/ \E wr_ok, rn_ok, op_ok \in BOOLEAN : DataCbFrame(wr_ok, rn_ok, op_ok)
  \/ DataCbReturn
  \/ StreamEof
  \/ \E ok \in BOOLEAN : TimerExpire(ok)
  \/ \E eof \in BOOLEAN : SenderEvent(eof)

Spec == Init /\ [][Next]_vars

\* A turn of the read callback's loop while the sink is closed: log_notify
\* returns at once.
ClosedTurn ==
  /\ sender.fd < 0
  /\ \E wr_ok, rn_ok, op_ok \in BOOLEAN : DataCbFrame(wr_ok, rn_ok, op_ok)

\* uloop runs the read callback to its end (which, for the connection, matters
\* while the sink is closed) and calls the timer's callback once the timer
\* expired; the server accepts a connection again and again.
Fairness ==
  /\ WF_vars(ClosedTurn)
  /\ WF_vars(DataCbReturn)
  /\ WF_vars(\E ok \in BOOLEAN : TimerExpire(ok))
  /\ SF_vars(TimerExpire(TRUE))

FairSpec == Spec /\ Fairness

\* The runs that check the templates.
TplSpec == TplInit /\ [][Next]_vars

(* ------------------------------ properties ---------------------------- *)

\* The units consumed from the stream so far.
Consumed == rpos - Len(rbuf)

\* The payload length the header at offset off of the stream declares.
Declared(off) == blob_len(SubSeq(stream, off + 1, off + BlobHdrSize))

\* C1: the read callback hands log_notify every complete frame at the head
\* of the buffer, in order and once each, consuming header plus declared
\* payload per frame; it never hands over a frame that is only partly
\* buffered, and when it returns the buffer holds an incomplete frame.
C1_FramesWhole ==
  /\ \A i \in 1..Len(notified) :
       /\ notified[i].off = IF i = 1 THEN 0 ELSE notified[i - 1].off + notified[i - 1].len
       /\ notified[i].off + BlobHdrSize <= rpos
       /\ notified[i].len = BlobHdrSize + Declared(notified[i].off)
       /\ notified[i].off + notified[i].len <= rpos
  /\ Consumed = IF notified = <<>> THEN 0
                ELSE LET f == notified[Len(notified)]
                     IN IF pc = "exit" THEN f.off ELSE f.off + f.len
  /\ rbuf = SubSeq(stream, Consumed + 1, rpos)
  /\ pc \in {"run", "done"} =>
       \/ Len(rbuf) < BlobHdrSize
       \/ Len(rbuf) < BlobHdrSize + Declared(Consumed)

\* C1's case: the callback returned after handing over a frame, and an
\* incomplete frame stays in the buffer.
C1_Witness == pc = "run" /\ Len(notified) >= 1 /\ Len(rbuf) >= BlobHdrSize

\* The indices in writes of the writes made for frame idx.
WritesOf(idx) == {i \in 1..Len(writes) : writes[i].idx = idx}

\* C2: when a write or send on a network sink fails, log_notify has removed
\* and closed the handle, set fd to -1 and armed the reconnect timer for
\* 1000 ms when it returns; no record is ever written twice.
C2_SendFailure ==
  /\ (log_type = LOG_NET /\ last.op = "notify" /\ last.res = "failed") =>
       /\ sender = [fd |-> -1, registered |-> FALSE]
       /\ retry = [pending |-> TRUE, msecs |-> 1000]
       /\ fdtab[last.fd] = "free"
  /\ \A i, j \in 1..Len(writes) : writes[i].idx = writes[j].idx => i = j

\* C2's case: a send on a connected socket failed, and after a reconnect a
\* later record was sent.
C2_Witness ==
  \E i, j \in 1..Len(writes) :
    /\ i < j
    /\ writes[i].kind = "sock" /\ ~writes[i].ok
    /\ writes[j].kind = "sock" /\ writes[j].ok

\* C3: a network sink writes a record only while it is Connected, that is
\* to a socket usock opened; every other record is dropped unwritten.
C3_WriteOnlyConnected ==
  log_type = LOG_NET => \A i \in 1..Len(writes) : writes[i].kind = "sock"

\* The number of frames of the stream.
RECURSIVE FramesFrom(_)
FramesFrom(off) ==
  IF off >= Len(stream) THEN 0 ELSE 1 + FramesFrom(off + BlobHdrSize + Declared(off))

\* C5: without -f the loop is asked to stop only on the end of the stream
\* and after every frame sent before it was processed; with -f never.
C5_StopOnlyAtEof ==
  /\ opt.log_follow => ~uloop_cancelled
  /\ uloop_cancelled => eos /\ Len(notified) = FramesFrom(0)

\* C6: a failed write to a file sink ends the process with a nonzero status,
\* and no later frame is processed.
C6_FileWriteFatal ==
  \A i \in 1..Len(writes) :
    (log_type = LOG_FILE /\ ~writes[i].ok) =>
      /\ pc = "exit"
      /\ status # 0
      /\ Len(notified) = writes[i].idx

\* The record of the frame log_notify handled last.
LastPayload ==
  LET f == notified[last.idx] IN SubSeq(stream, f.off + BlobHdrSize + 1, f.off + f.len)

\* C10: with a filter and an open sink, a well-formed record whose message
\* does not match is not written, and one whose message matches is written
\* exactly once unless the template's expansion overflows (or the rotation
\* that precedes the filter ends the process);
\* without a filter every well-formed record is written so.
C10_Filter ==
  (last.op = "notify" /\ last.fd >= 0 /\ HasAllFields(blobmsg_parse(LastPayload))) =>
    LET m == Messages[Deref(blobmsg_parse(LastPayload)["msg"]).val]
        nw == Cardinality(WritesOf(last.idx))
    IN IF opt.regexp_pattern # NULL /\ StrStr(m, 1, Deref(opt.regexp_pattern)) = 0
       THEN nw = 0 /\ last.res \in {"filtered", "exit"}
       ELSE \/ last.res \in {"overflow", "smash", "exit"} /\ nw = 0
            \/ last.res \in {"written", "failed"} /\ nw = 1

\* C10's case: a matching record was written and the next, which does not
\* match, was dropped.
C10_Witness ==
  /\ last.op = "notify" /\ last.res = "filtered"
  /\ \E i \in 1..Len(writes) : writes[i].ok /\ writes[i].idx < last.idx

\* The type the record parser requires of field f.
RequiredType(f) ==
  CASE f = "msg" -> "string"
    [] f = "time" -> "int64"
    [] OTHER -> "int32"

\* A payload with every required field, each of its required type.
WellFormed(payload) ==
  \A f \in LogFields :
    \E i \in 1..Len(payload) : payload[i].name = f /\ payload[i].type = RequiredType(f)

\* The payload of the complete frame at the head of the buffer.
HeadPayload == SubSeq(rbuf, BlobHdrSize + 1, BlobHdrSize + blob_len(rbuf))

\* C9: a frame that lacks a required field, or carries one of the wrong
\* type, is skipped: the step that handles it writes nothing, leaves the
\* sink's handle, the descriptors, the files and the timer as they were,
\* consumes the frame and stays in the callback's loop.
C9_SkipMalformed ==
  [][ (pc = "cb" /\ HasFrame(rbuf) /\ ~WellFormed(HeadPayload)) =>
        /\ UNCHANGED << sender, retry, fdtab, fs, writes, fileops >>
        /\ pc' = "cb"
        /\ rbuf' = SubSeq(rbuf, BlobHdrSize + blob_len(rbuf) + 1, Len(rbuf))
        /\ Len(notified') = Len(notified) + 1 ]_vars

\* C9's case: a frame was skipped on an open sink and a well-formed frame
\* of the same read event follows it.
C9_Witness ==
  /\ pc = "cb" /\ last.op = "notify" /\ last.res = "skip" /\ last.fd >= 0
  /\ HasFrame(rbuf) /\ WellFormed(HeadPayload)

\* C7: a failed open of the log file at start-up, and a failed rename or
\* reopen of a rotation, end the process with a nonzero status, and no
\* record is written after it.
C7_OpenRotateFatal ==
  \A i \in 1..Len(fileops) :
    ~fileops[i].ok =>
      /\ pc = "exit"
      /\ status # 0
      /\ \A j \in 1..Len(writes) : writes[j].idx < fileops[i].idx

\* The rotations: the opens log_notify made.
Rotations == {i \in 1..Len(fileops) : fileops[i].op = "open" /\ fileops[i].idx > 0}

\* The lines written to the file, in order.
RECURSIVE Written(_)
Written(ws) ==
  IF ws = <<>> THEN <<>>
  ELSE (IF Head(ws).ok /\ Head(ws).kind = "file"
        THEN << [idx |-> Head(ws).idx, text |-> Head(ws).data] >> ELSE <<>>)
       \o Written(Tail(ws))

\* C8: once a file sink has rotated for the first time, there was exactly
\* one rename to log_file.old, the new file started empty, and the lines
\* written are, in order and once each, those of log_file.old followed by
\* those of log_file.
C8_RotationKeepsAll ==
  (log_type = LOG_FILE /\ Cardinality(Rotations) = 1 /\ pc # "exit") =>
    LET k == fileops[CHOOSE i \in Rotations : TRUE].idx
    IN /\ Cardinality({i \in 1..Len(fileops) : fileops[i].op = "rename" /\ fileops[i].ok}) = 1
       /\ fs.log.pre = 0
       /\ \A i \in 1..Len(fs.log.lines) : fs.log.lines[i].idx >= k
       /\ \A i \in 1..Len(fs.old.lines) : fs.old.lines[i].idx < k
       /\ fs.old.lines \o fs.log.lines = Written(writes)

\* The retry timer's callback runs: the loop is idle and the timer is set
\* (the sink's handle is then not registered, so it is no event of the
\* handle's; the stream's end changes eos).
TimerStep == pc = "run" /\ pc' = "run" /\ retry.pending /\ eos' = eos

\* C4: every expiry of the reconnect timer makes one connection attempt; a
\* failed one leaves the sink disconnected and sets the timer to 1000 ms
\* again, a successful one registers the new socket and does not set the
\* timer.  With fair timer ticks and attempts that succeed again and again,
\* a disconnected sink becomes connected (unless the loop is stopped).
C4_Reconnect ==
  /\ [][ TimerStep =>
           \/ /\ sender' = [fd |-> -1, registered |-> FALSE]
              /\ retry' = [pending |-> TRUE, msecs |-> 1000]
              /\ fdtab' = fdtab
           \/ /\ sender'.registered /\ sender'.fd >= 0
              /\ fdtab[sender'.fd] = "free" /\ fdtab'[sender'.fd] = "sock"
              /\ ~retry'.pending ]_vars
  /\ (log_type = LOG_NET /\ pc \in {"run", "cb"} /\ sender.fd < 0)
       ~> (sender.registered \/ uloop_cancelled)

\* C4's case: after a failed send the timer expired and the attempt
\* succeeded: the sink is connected again and the timer is not set.
C4_Witness ==
  /\ log_type = LOG_NET /\ sender.registered /\ fdtab[sender.fd] = "sock"
  /\ ~retry.pending
  /\ \E i \in 1..Len(writes) : writes[i].kind = "sock" /\ ~writes[i].ok

(* ------------------------ properties of the text ---------------------- *)

\* The payload of the i-th frame handed to log_notify.
FramePayload(i) ==
  SubSeq(stream, notified[i].off + BlobHdrSize + 1, notified[i].off + notified[i].len)

\* The value of field f in a well-formed payload.
AttrVal(payload, f) ==
  payload[CHOOSE i \in 1..Len(payload) :
            payload[i].name = f /\ payload[i].type = RequiredType(f)].val

\* The value a record gives the k-th placeholder.
RefValue(k, payload) ==
  LET time == AttrVal(payload, "time")
      src == AttrVal(payload, "source")
  IN CASE k = 1 -> Messages[AttrVal(payload, "msg")]
       [] k = 2 -> ToString(AttrVal(payload, "priority"))
       [] k = 3 -> (IF src = 0 THEN "kernel" ELSE IF src = 1 THEN "syslog"
                    ELSE IF src = 2 THEN "internal" ELSE "-")
       [] k = 4 -> "[" \o ToString(time \div 1000) \o "." \o Pad3(time % 1000) \o "] "
       [] k = 5 -> timestamp_format(time \div 1000, time % 1000)

\* The placeholders that start at index p of s.
FieldsAt(s, p) ==
  {k \in 1..Len(TPL_FIELDS) :
     /\ p + Len(TPL_FIELDS[k]) - 1 <= Len(s)
     /\ SubSeq(s, p, p + Len(TPL_FIELDS[k]) - 1) = TPL_FIELDS[k]}

\* What a template means from index i on: one pass from left to right, each
\* placeholder replaced by the record's value, everything else copied.
RECURSIVE RefExpand(_, _, _)
RefExpand(s, i, payload) ==
  LET p == StrStr(s, i, "%")
  IN IF p = 0 THEN SubSeq(s, i, Len(s))
     ELSE IF FieldsAt(s, p) = {} THEN SubSeq(s, i, p) \o RefExpand(s, p + 1, payload)
     ELSE LET k == CHOOSE k \in FieldsAt(s, p) : TRUE
          IN SubSeq(s, i, p - 1) \o RefValue(k, payload)
               \o RefExpand(s, p + Len(TPL_FIELDS[k]), payload)

\* The byte a sink adds to the text: a TCP sink without -0 and a stdout or
\* file sink add a newline (a TCP sink with -0 sends the text's NUL).
Trailer == IF log_type = LOG_NET /\ (opt.log_udp \/ opt.log_trailer_null) THEN "" ELSE "\n"

\* C11: in template mode whatever is written is the template with every
\* placeholder replaced, from left to right, by the record's value and all
\* other text copied as it is (on a stdout sink for texts shorter than the
\* buffer's 511 bytes); "%priority% %message%" with priority 14 and message
\* "hello" gives "14 hello", and a template without a placeholder is written
\* unchanged.
C11_TemplateExpansion ==
  opt.log_template # NULL =>
    \A j \in 1..Len(writes) :
      LET e == RefExpand(Deref(opt.log_template), 1, FramePayload(writes[j].idx))
      IN /\ (log_type = LOG_NET \/ Len(e) < BufSize - 1) => writes[j].data = e \o Trailer
         /\ (Deref(opt.log_template) = "%priority% %message%"
               /\ AttrVal(FramePayload(writes[j].idx), "msg") = 1
               /\ log_type = LOG_STDOUT) => writes[j].data = "14 hello\n"
         /\ (Deref(opt.log_template) = "100% %msg% text" /\ log_type = LOG_STDOUT)
               => writes[j].data = "100% %msg% text\n"

\* C11's case: the spec's example was written to stdout, and after it the
\* record from the kernel.
C11_Witness ==
  /\ log_type = LOG_STDOUT
  /\ Len(writes) = 2
  /\ writes[1].data = "14 hello\n"
  /\ writes[2].data = "6 bye\n"

\* C12: text a record's value brings in is never expanded: a message
\* "%priority%" is written as it is, and so is a message "%prio" that the
\* template's next text, "rity%", completes to a placeholder's name; only the
\* template's own placeholders are replaced.
C12_NoRescan ==
  opt.log_template # NULL =>
    \A j \in 1..Len(writes) :
      LET tpl == Deref(opt.log_template)
          msg == AttrVal(FramePayload(writes[j].idx), "msg")
      IN /\ (tpl = "%priority% %message%" /\ Messages[msg] = "%priority%")
              => writes[j].data = "14 %priority%" \o Trailer
         /\ (tpl = "%message%rity% %priority%" /\ Messages[msg] = "%prio")
              => writes[j].data = "%priority% 14" \o Trailer
         /\ (tpl = "%message%rity% %priority%" /\ Messages[msg] = "%priority%")
              => writes[j].data = "%priority%rity% 14" \o Trailer
         /\ (tpl = "%source%|%timestamp%|%rfc3339%|%message%|%priority%|%message%"
               /\ Messages[msg] = "%priority%")
              => writes[j].data = "syslog|[5.123] |1970-01-01T00:00:05.123Z|%priority%|14|%priority%"
                                    \o Trailer

\* C12's case: the message "%prio" was written before the text "rity%" and
\* the message "%priority%" before a placeholder.
C12_Witness ==
  /\ Len(writes) = 2
  /\ writes[1].data = "%priority% 14" \o Trailer
  /\ writes[2].data = "%priority%rity% 14" \o Trailer

\* Whether some substitution from index i of template s on leaves more than
\* 511 bytes in the buffer: done is the length of the text before i, already
\* expanded, and what follows a substituted placeholder is still unexpanded.
RECURSIVE StepOverflows(_, _, _, _)
StepOverflows(s, i, done, payload) ==
  LET p == StrStr(s, i, "%")
  IN IF p = 0 THEN FALSE
     ELSE IF FieldsAt(s, p) = {} THEN StepOverflows(s, p + 1, done + (p - i) + 1, payload)
     ELSE LET k == CHOOSE k \in FieldsAt(s, p) : TRUE
              next == p + Len(TPL_FIELDS[k])
              now == done + (p - i) + Len(RefValue(k, payload))
          IN IF now + (Len(s) - next + 1) > BufSize - 1 THEN TRUE
             ELSE StepOverflows(s, next, now, payload)

\* The template, or the text after one of its substitutions, does not fit the
\* 512-byte buffer.
Overflows(tpl, payload) == Len(tpl) > BufSize - 1 \/ StepOverflows(tpl, 1, 0, payload)

C14_WrittenWhole ==
  (opt.log_template # NULL /\ log_type # LOG_NET) =>
    \A j \in 1..Len(writes) :
      writes[j].data
        = RefExpand(Deref(opt.log_template), 1, FramePayload(writes[j].idx)) \o "\n"

\* The lookups that failed so far.
FailedLookups == Tries - tries

\* Nothing of the sink or of the event loop was touched.
Untouched ==
  /\ log_type = LOG_STDOUT
  /\ sender = [fd |-> 0, registered |-> FALSE]
  /\ ~retry.pending
  /\ \A fd \in FdNums : fdtab[fd] = "file" \/ fdtab[fd] = "sock" => FALSE
  /\ fileops = <<>> /\ notified = <<>> /\ writes = <<>>
  /\ rpos = 0 /\ ~eos /\ ~uloop_cancelled

\* C15: a lookup is attempted at most 6 times; after the 6th failure the
\* process ends with a nonzero status and has touched neither a sink nor the
\* event loop; a lookup that succeeds sets up the sink the options name and
\* enters the event loop, which is entered from nowhere else, no lookup
\* follows, and main returns 0 when the loop ends.
C15_LookupBounded ==
  [][ /\ pc = "lookup" => /\ FailedLookups \in 0..5
                          /\ Untouched
      /\ (pc = "lookup" /\ pc' = "lookup") => tries' = tries - 1 /\ Untouched'
      /\ (pc = "lookup" /\ pc' = "done") =>
            /\ FailedLookups = 5
            /\ status' # 0
            /\ Untouched'
      /\ (pc = "lookup" /\ pc' \in {"run", "exit"}) =>
            /\ log_type' = IF opt.log_ip THEN LOG_NET
                            ELSE IF opt.log_file THEN LOG_FILE ELSE LOG_STDOUT
            /\ log_type' = LOG_NET => retry'.pending /\ retry'.msecs = 1000
            /\ log_type' = LOG_FILE => Len(fileops') = 1 /\ fileops'[1].op = "open"
            /\ log_type' = LOG_FILE => (pc' = "run" <=> fileops'[1].ok)
            /\ log_type' = LOG_STDOUT => sender'.fd = 1
            /\ log_type' # LOG_FILE => pc' = "run"
      /\ pc # "lookup" => tries' = tries /\ ret' = ret
      /\ pc \notin {"connect", "lookup"} => pc' # "lookup"
      /\ (pc' = "run" /\ pc \notin {"run", "cb"}) => pc = "lookup"
      /\ (pc = "run" /\ pc' = "done") => status' = 0
      /\ pc \in {"done", "exit"} => pc' = pc ]_vars

\* C15's case: five lookups failed, the sixth succeeded, a record was
\* written and main returned 0.
C15_Witness ==
  /\ FailedLookups = 5
  /\ pc = "done" /\ status = 0
  /\ Len(writes) = 1

\* All six lookups failed.
C15_AllFailed == pc = "done" /\ FailedLookups = 6 /\ status # 0 /\ Untouched

\* C16: a TCP sink sends each record's text and exactly one byte more, a
\* newline or, with -0, the text's terminating NUL, never more than the
\* buffer's 512 bytes; a UDP sink writes exactly the text; and no record is
\* sent in more than one call.
C16_NetFraming ==
  (opt.log_template # NULL /\ log_type = LOG_NET) =>
    /\ \A j \in 1..Len(writes) :
         LET text == RefExpand(Deref(opt.log_template), 1, FramePayload(writes[j].idx))
         IN /\ Len(text) \in 0..(BufSize - 1)
            /\ IF opt.log_udp
               THEN writes[j].data = text /\ writes[j].len = Len(text)
               ELSE /\ writes[j].len = Len(text) + 1
                    /\ writes[j].len <= BufSize
                    /\ writes[j].data = IF opt.log_trailer_null THEN text ELSE text \o "\n"
    /\ \A j, k \in 1..Len(writes) : writes[j].idx = writes[k].idx => j = k

\* C16's case: a TCP sink sent a text of 511 bytes and its newline, 512
\* bytes in all.
C16_Witness ==
  /\ log_type = LOG_NET /\ ~opt.log_udp /\ ~opt.log_trailer_null
  /\ Len(writes) = 1 /\ writes[1].ok
  /\ writes[1].len = BufSize
  /\ SubSeq(writes[1].data, BufSize, BufSize) = "\n"

\* An empty text: the TCP sink sent the trailer alone.
C16_EmptyText ==
  /\ log_type = LOG_NET /\ ~opt.log_udp
  /\ Len(writes) = 1 /\ writes[1].len = 1

\* Every rename so far succeeded.
RenamesOk(ops) == \A i \in 1..Len(ops) : ops[i].op = "rename" => ops[i].ok

\* C17: on a file sink with a threshold whose renames succeed, a step that
\* writes finds the file at most as large as the threshold when it writes
\* (the rotation check came first), writes at most 511 bytes, and so leaves
\* the file at most 511 bytes above the threshold; the file stays within
\* that bound once the process has written to it.
C17_Overshoot ==
  [][ (log_type = LOG_FILE /\ opt.log_size # 0 /\ RenamesOk(fileops')) =>
        /\ Len(writes') = Len(writes) + 1 =>
              LET w == writes'[Len(writes')]
                  after == FileSize(fs'.log)
                  before == after - (IF w.ok THEN w.len ELSE 0)
              IN /\ w.kind = "file"
                 /\ before <= opt.log_size
                 /\ w.len <= BufSize - 1
                 /\ after <= opt.log_size + 511
        /\ writes' # <<>> => FileSize(fs'.log) <= opt.log_size + 511 ]_vars

\* C17's case: a record pushed the file over the threshold, the next record
\* rotated it and was written to the new file.
C17_Witness ==
  /\ log_type = LOG_FILE /\ opt.log_size # 0
  /\ RenamesOk(fileops)
  /\ Len(writes) = 2
  /\ fs.old.exists /\ Len(fs.old.lines) = 1
  /\ FileSize(fs.old) > opt.log_size
  /\ FileSize(fs.old) <= opt.log_size + 511
  /\ Len(fs.log.lines) = 1 /\ fs.log.pre = 0

\* The record at the head of the buffer is well-formed and its message does
\* not match the configured pattern.
HeadNoMatch ==
  /\ pc = "cb" /\ HasFrame(rbuf) /\ WellFormed(HeadPayload)
  /\ opt.regexp_pattern # NULL
  /\ StrStr(Messages[AttrVal(HeadPayload, "msg")], 1, Deref(opt.regexp_pattern)) = 0

\* C18: on an open file sink the step that handles a record the filter drops
\* renames nothing, opens nothing, leaves the files and the sink's descriptor
\* as they were, and stays in the loop.
C18_FilteredNoEffect ==
  [][ (HeadNoMatch /\ log_type = LOG_FILE /\ sender.fd >= 0) =>
        /\ UNCHANGED << fs, fileops, sender, fdtab >>
        /\ pc' = "cb" ]_vars

\* No reconnect was attempted and no send failed yet: sender.fd has the
\* value it got statically.
BeforeFirstAttempt == sender = [fd |-> 0, registered |-> FALSE]

\* The descriptors that are sockets.
Socks == {fd \in FdNums : fdtab[fd] = "sock"}

\* C19: on a network sink, once the first reconnect was attempted, the timer
\* is armed exactly while the sink has no handle; the only socket open is the
\* sink's registered handle; and a new handle is only taken while the sink has
\* none (or still has its static value), on a descriptor that was free.
C19_TimerIffClosed ==
  [][ log_type' = LOG_NET =>
        /\ ~BeforeFirstAttempt' => (retry'.pending <=> sender'.fd < 0)
        /\ BeforeFirstAttempt' => retry'.pending
        /\ Cardinality(Socks') <= 1
        /\ Socks' = IF sender'.registered THEN {sender'.fd} ELSE {}
        /\ (sender' # sender /\ sender'.fd >= 0) =>
              /\ sender.fd < 0 \/ BeforeFirstAttempt
              /\ retry.pending /\ ~retry'.pending
              /\ sender'.registered
              /\ fdtab[sender'.fd] = "free" ]_vars

\* C19's case: a send on a connected socket failed, the sink reconnected
\* and the next record was sent on the new socket.
C19_Witness ==
  /\ log_type = LOG_NET
  /\ Len(writes) = 2
  /\ writes[1].kind = "sock" /\ ~writes[1].ok
  /\ writes[2].kind = "sock" /\ writes[2].ok
  /\ sender.registered /\ ~retry.pending

\* A step of the event loop on a connected sink that is neither a read of
\* the stream nor the loop's end: an event on the sink's handle.
HandleStep ==
  /\ pc = "run" /\ pc' = "run"
  /\ sender.registered /\ ~retry.pending
  /\ eos' = eos

\* C20: an event on a connected sink's handle either changes nothing or, the
\* peer having closed, removes the handle from the loop, closes it, sets fd
\* to -1 and sets the timer to 1000 ms, which is the state a failed send
\* leaves; while fd is -1 every record handed to log_notify is consumed
\* without a write and the sink stays as it is.
C20_PeerClose ==
  [][ /\ HandleStep =>
            /\ UNCHANGED << log_type, fs, fileops, writes, notified, rbuf, rpos, status >>
            /\ \/ UNCHANGED << sender, retry, fdtab >>
               \/ /\ sender' = [fd |-> -1, registered |-> FALSE]
                  /\ retry' = [pending |-> TRUE, msecs |-> 1000]
                  /\ fdtab' = [fdtab EXCEPT ![sender.fd] = "free"]
      /\ (log_type = LOG_NET /\ pc = "cb" /\ HasFrame(rbuf) /\ sender.fd < 0) =>
            /\ UNCHANGED << sender, retry, fdtab, writes >>
            /\ Len(notified') = Len(notified) + 1
            /\ rbuf' = SubSeq(rbuf, BlobHdrSize + blob_len(rbuf) + 1, Len(rbuf))
            /\ last'.res = "nofd"
            /\ pc' = "cb" ]_vars

\* C20's case: a record was sent on a connected socket, the peer closed it,
\* and the next record was dropped: no send failed, the handle is closed and
\* the timer is set.
C20_Witness ==
  /\ log_type = LOG_NET
  /\ Len(writes) = 1 /\ writes[1].kind = "sock" /\ writes[1].ok
  /\ Len(notified) = 2
  /\ last.op = "notify" /\ last.res = "nofd"
  /\ sender = [fd |-> -1, registered |-> FALSE]
  /\ retry = [pending |-> TRUE, msecs |-> 1000]
  /\ Socks = {}

====
